---- MODULE Spec2Model ----
(***************************************************************************)
(* Constant folding pass of optimizer_scripts/tools/constant_folding.py.   *)
(*                                                                         *)
(* The graph g is the pair (g_node, g_value_info): the ordered node list   *)
(* and the list of Value records.  Nodes refer to each other by value      *)
(* name only.  Every node has one output, and a node's name is its output  *)
(* name (as for every node the pass itself creates).                       *)
(***************************************************************************)
EXTENDS Integers, Sequences, FiniteSets, TLC

VARIABLES
  g_node,        \* g.node
  g_value_info,  \* g.value_info
  pc,            \* where constant_folding(g) stands
  idx,           \* position of "for node in g.node" in the live list
  keep_folding,  \* local of constant_folding
  folded,        \* local of constant_folding
  calls,         \* how many times the caller has called constant_folding
  entry,         \* the graph the current call was entered with
  returned,      \* per finished call: its return value and the graph
  gate,          \* the last Eligibility Gate evaluation of the current pass
  last_eval,     \* what the last evaluator invocation did
  dup_log,       \* what duplicate_constant_node did in the current call
  reports        \* what each evaluator invocation of the call returned

vars == <<g_node, g_value_info, pc, idx, keep_folding, folded, calls,
          entry, returned, gate, last_eval, dup_log, reports>>

(* ------------------------------ bounds -------------------------------- *)
MaxConsts == 3
MaxOps == 3
MaxCalls == 2
MaxRank == 2
MaxDim == 3

(* ------------------------- python-level values ------------------------ *)
\* str(i) for the small i the clone names need
Str(i) ==
  CASE i = 0 -> "0" [] i = 1 -> "1" [] i = 2 -> "2" [] i = 3 -> "3"
    [] i = 4 -> "4" [] i = 5 -> "5" [] i = 6 -> "6" [] i = 7 -> "7"
    [] i = 8 -> "8" [] OTHER -> "9"

\* onnx.TensorProto data type codes
FLOAT == 1
INT32 == 6
INT64 == 7

NoTensor == [data_type |-> 0, dims |-> <<>>, vals |-> <<>>]
NoAttr == [i |-> 0, ints |-> <<>>, starts |-> <<>>, ends |-> <<>>, has_axes |-> FALSE]

\* None, as returned by the lookups
NoneNode ==
  [name |-> "", op_type |-> "None", input |-> <<>>, output |-> "",
   attr |-> NoAttr, t |-> NoTensor]
NoneValue == [name |-> "", elem_type |-> 0, shape |-> <<>>, none |-> TRUE]

IsNone(n) == n.op_type = "None"
IsNoneValue(v) == v.none

\* onnx.helper.make_node('Constant', [], [output_name], name=output_name, value=t)
MakeConstant(output_name, t) ==
  [name |-> output_name, op_type |-> "Constant", input |-> <<>>,
   output |-> output_name, attr |-> NoAttr, t |-> t]

\* onnx.helper.make_tensor_value_info(name, elem_type, shape)
MakeValueInfo(name, elem_type, shape) ==
  [name |-> name, elem_type |-> elem_type, shape |-> shape, none |-> FALSE]

\* names of graph inputs (g.input); the pass never changes them
GraphInputs == {"x"}

(* ----------------------------- sequences ------------------------------ *)
Range(s) == {s[i] : i \in 1..Len(s)}

\* list.index(x): position of the first element equal to x, 0 when absent
RECURSIVE IndexFrom(_, _, _)
IndexFrom(s, x, i) ==
  IF i > Len(s) THEN 0
  ELSE IF s[i] = x THEN i ELSE IndexFrom(s, x, i + 1)

IndexOf(s, x) == IndexFrom(s, x, 1)

\* s without its element at position i
RemoveAt(s, i) == SubSeq(s, 1, i - 1) \o SubSeq(s, i + 1, Len(s))

\* list.remove(x) on a list that holds x: the first equal element goes
RemoveFirst(s, x) == RemoveAt(s, IndexOf(s, x))

(* --------------------- lookups (helper module) ------------------------ *)
\* helper.find_node_by_output_name: the first node producing the value
RECURSIVE FindNodeFrom(_, _, _)
FindNodeFrom(nodes, output_name, i) ==
  IF i > Len(nodes) THEN NoneNode
  ELSE IF nodes[i].output = output_name THEN nodes[i]
  ELSE FindNodeFrom(nodes, output_name, i + 1)

find_node_by_output_name(nodes, output_name) ==
  FindNodeFrom(nodes, output_name, 1)

\* helper.find_nodes_by_input_name: positions, in list order, of the nodes
\* that read the value in at least one input position
find_nodes_by_input_name(nodes, input_name) ==
  LET Reads(i) == input_name \in Range(nodes[i].input)
      RECURSIVE Walk(_)
      Walk(i) ==
        IF i > Len(nodes) THEN <<>>
        ELSE IF Reads(i) THEN <<i>> \o Walk(i + 1) ELSE Walk(i + 1)
  IN Walk(1)

\* helper.find_value_by_name: the first Value record of that name, or None
RECURSIVE FindValueFrom(_, _, _)
FindValueFrom(values, name, i) ==
  IF i > Len(values) THEN NoneValue
  ELSE IF values[i].name = name THEN values[i]
  ELSE FindValueFrom(values, name, i + 1)

find_value_by_name(values, name) == FindValueFrom(values, name, 1)

\* helper.get_shape_from_value_info
get_shape_from_value_info(value) ==
  IF IsNoneValue(value) THEN <<>> ELSE value.shape

(* ---------------------- topological_sort (other) ---------------------- *)
\* A node can be placed once each of its inputs is a graph input or the
\* output of a node already placed.  The sort keeps the list order among
\* the nodes that are ready, and fails when some node never becomes ready
\* (a cycle, or an input that nothing provides).
Ready(placed, rest) ==
  {i \in 1..Len(rest) :
     Range(rest[i].input) \subseteq
       (GraphInputs \cup {placed[k].output : k \in 1..Len(placed)})}

First(S) == CHOOSE j \in S : \A k \in S : j <= k

RECURSIVE SortFrom(_, _)
SortPick(placed, rest, ready) ==
  IF ready = {} THEN [ok |-> FALSE, node |-> placed \o rest]
  ELSE SortFrom(Append(placed, rest[First(ready)]), RemoveAt(rest, First(ready)))

SortFrom(placed, rest) ==
  IF rest = <<>> THEN [ok |-> TRUE, node |-> placed]
  ELSE SortPick(placed, rest, Ready(placed, rest))

topological_sort(nodes) == SortFrom(<<>>, nodes)

\* "topological_sort(g)" as the last statement of a function working on st
SortedInto(st, sorted) ==
  IF ~sorted.ok THEN [st EXCEPT !.err = "RuntimeError"]
  ELSE [st EXCEPT !.node = sorted.node]

SortGraph(st) ==
  IF st.err # "" THEN st ELSE SortedInto(st, topological_sort(st.node))

(* ------------------------- registered op kinds ------------------------ *)
\* the keys of constant_folding_nodes
Registered ==
  {"Add", "Cast", "Concat", "Div", "Floor", "Gather", "Mul", "Reciprocal",
   "ReduceProd", "Reshape", "Slice", "Sqrt", "Transpose", "Unsqueeze",
   "Sub", "Neg"}

\* the outputs of the nodes at the positions ps of the list
OutputsAt(nodes, ps) == {nodes[ps[k]].output : k \in 1..Len(ps)}

\* the outputs of the nodes that read the value
Readers(nodes, name) == OutputsAt(nodes, find_nodes_by_input_name(nodes, name))

(* ----------------------- duplicate_constant_node ---------------------- *)
\* lines 71-89 for the foldable consumer at list position c: the clone
\* named output_name goes into the first input position of the consumer
\* that holds the original's name, and the clone and its Value are appended
DupClone(st, orig, data_shape, c, output_name) ==
  [st EXCEPT
     !.node = Append([st.node EXCEPT
                        ![c].input[IndexOf(st.node[c].input, orig.output)] =
                           output_name],
                     MakeConstant(output_name, orig.t)),
     !.value_info = Append(st.value_info,
                           MakeValueInfo(output_name, orig.t.data_type, data_shape)),
     !.clones = Append(st.clones, [orig |-> orig.output, clone |-> output_name,
                                   consumer |-> st.node[c].output])]

\* "for i in range(len(foldable_output_nodes))"
RECURSIVE DupClones(_, _, _, _, _)
DupClones(st, orig, data_shape, foldable, i) ==
  IF i >= Len(foldable) THEN st
  ELSE DupClones(DupClone(st, orig, data_shape, foldable[i + 1],
                          orig.output \o "_dup_" \o Str(i)),
                 orig, data_shape, foldable, i + 1)

\* lines 92-94: the original goes when every consumer was foldable
DupRemove(st, n, output_val_info, all) ==
  IF ~all THEN st
  ELSE IF IsNoneValue(output_val_info)
    THEN [st EXCEPT !.node = RemoveFirst(st.node, n), !.err = "ValueError",
                    !.removed = Append(st.removed, n.output)]
    ELSE [st EXCEPT !.node = RemoveFirst(st.node, n),
                    !.value_info = RemoveFirst(st.value_info, output_val_info),
                    !.removed = Append(st.removed, n.output)]

\* lines 61-94 for a constant n with the consumers output_nodes
DupShared(st, n, output_val_info, output_nodes, foldable_output_nodes) ==
  IF foldable_output_nodes = <<>> THEN st
  ELSE DupRemove(DupClones(st, n, get_shape_from_value_info(output_val_info),
                           foldable_output_nodes, 0),
                 n, output_val_info,
                 Len(foldable_output_nodes) = Len(output_nodes))

\* a Duplication that clones the constant for every consumer, foldable or not
DupNode_cloning_for_all(st, n, output_nodes) ==
  IF n.op_type # "Constant" THEN st
  ELSE IF Len(output_nodes) < 2 THEN st
  ELSE DupShared(st, n, find_value_by_name(st.value_info, n.output), output_nodes,
                 output_nodes)

\* lines 51-59 for the node n
DupNode(st, n, output_nodes) ==
  IF n.op_type # "Constant" THEN st
  ELSE IF Len(output_nodes) < 2 THEN st
  ELSE DupShared(st, n, find_value_by_name(st.value_info, n.output), output_nodes,
                 SelectSeq(output_nodes,
                           LAMBDA c : st.node[c].op_type \in Registered))

\* "for node in g.node": the loop runs over the live list by position, so
\* after a removal at position i the next node looked at is the one at
\* position i + 1 of the new list
RECURSIVE DupLoop(_, _)
DupLoop(st, i) ==
  IF st.err # "" \/ i > Len(st.node) THEN st
  ELSE DupLoop(DupNode(st, st.node[i],
                       find_nodes_by_input_name(st.node, st.node[i].output)),
               i + 1)

\* duplicate_constant_node(g): the loop, then topological_sort(g)
duplicate_constant_node(nodes, values) ==
  SortGraph(DupLoop([node |-> nodes, value_info |-> values, err |-> "",
                     clones |-> <<>>, removed |-> <<>>], 1))

(* --------------------------- Eligibility Gate ------------------------- *)
\* a gate that lets a constant with two consumers through
InputOk_two_children(nodes, input_node, relative_outputs) ==
  /\ ~IsNone(input_node)
  /\ input_node.op_type = "Constant"
  /\ ~(Len(relative_outputs) > 2)

\* lines 13-18 for one input
InputOk(nodes, input_node, relative_outputs) ==
  /\ ~IsNone(input_node)
  /\ input_node.op_type = "Constant"
  /\ ~(Len(relative_outputs) > 1)

RECURSIVE GateFrom(_, _, _)
GateFrom(nodes, n, k) ==
  IF k > Len(n.input) THEN TRUE
  ELSE IF ~InputOk(nodes, find_node_by_output_name(nodes, n.input[k]),
                   find_nodes_by_input_name(nodes, n.input[k])) THEN FALSE
  ELSE GateFrom(nodes, n, k + 1)

are_all_inputs_Constant_with_one_child(nodes, n) == GateFrom(nodes, n, 1)

(* ------------------------------ tensors ------------------------------- *)
\* A python shape value is a list of dims, or the bare integer 1 that
\* helper.constant_to_list reports for a rank-0 tensor.
ListShape(dims) == [is_int |-> FALSE, dims |-> dims]
IntShape == [is_int |-> TRUE, dims |-> <<>>]

\* helper.constant_to_list(node) -> (shape, flat data)
constant_to_list(n) ==
  [shape |-> IF n.t.dims = <<>> THEN IntShape ELSE ListShape(n.t.dims),
   data |-> n.t.vals]

\* product of s[i..]
RECURSIVE ProdFrom(_, _)
ProdFrom(s, i) == IF i > Len(s) THEN 1 ELSE s[i] * ProdFrom(s, i + 1)

\* row-major coordinate (from 0) along dimension d of flat position k (from 0)
Coord(k, s, d) == (k \div ProdFrom(s, d + 1)) % s[d]

NoArray == [ok |-> FALSE, shape |-> <<>>, data |-> <<>>]

\* np.reshape(data, shape): an array, or a failure when the sizes differ;
\* the integer shape 1 gives a one-element vector
ReshapeTo(data, dims) ==
  [ok |-> ProdFrom(dims, 1) = Len(data), shape |-> dims, data |-> data]

np_reshape(data, shape) ==
  ReshapeTo(data, IF shape.is_int THEN <<1>> ELSE shape.dims)

\* np.array(list): a flat list is a rank-1 array
np_array(data) == [ok |-> TRUE, shape |-> <<Len(data)>>, data |-> data]

\* dimension d of shape s once right-aligned to rank n
Aligned(s, n, d) == IF d + Len(s) - n >= 1 THEN s[d + Len(s) - n] ELSE 1

Max(a, b) == IF a > b THEN a ELSE b

\* numpy broadcasting of two shapes
BroadcastTo(s1, s2, n) ==
  [ok |-> \A d \in 1..n :
            \/ Aligned(s1, n, d) = Aligned(s2, n, d)
            \/ Aligned(s1, n, d) = 1
            \/ Aligned(s2, n, d) = 1,
   shape |-> [d \in 1..n |-> IF Aligned(s1, n, d) = 1 THEN Aligned(s2, n, d)
                             ELSE Aligned(s1, n, d)]]

BroadcastShape(s1, s2) == BroadcastTo(s1, s2, Max(Len(s1), Len(s2)))

\* flat position (from 0) in an operand of shape s of the element that
\* position k of the broadcast result of shape r reads
RECURSIVE OperandPos(_, _, _, _)
OperandPos(k, r, s, d) ==
  IF d > Len(s) THEN 0
  ELSE (IF s[d] = 1 THEN 0 ELSE Coord(k, r, d + Len(r) - Len(s)))
         * ProdFrom(s, d + 1)
       + OperandPos(k, r, s, d + 1)

\* the elementwise operations of the binary evaluators (the quotients the
\* model forms are exact, and no divisor is 0)
Apply(f, a, b) ==
  CASE f = "add" -> a + b
    [] f = "subtract" -> a - b
    [] f = "multiply" -> a * b
    [] f = "divide" -> a \div b

\* np.add / np.subtract / np.multiply / np.divide of two arrays
Elementwise(f, a1, a2, b) ==
  IF ~a1.ok \/ ~a2.ok \/ ~b.ok THEN NoArray
  ELSE [ok |-> TRUE, shape |-> b.shape,
        data |-> [k \in 1..ProdFrom(b.shape, 1) |->
          Apply(f, a1.data[OperandPos(k - 1, b.shape, a1.shape, 1) + 1],
                   a2.data[OperandPos(k - 1, b.shape, a2.shape, 1) + 1])]]

np_binary(f, a1, a2) == Elementwise(f, a1, a2, BroadcastShape(a1.shape, a2.shape))

\* np.take(array, indices, axis): indices is a flat list, or one integer
\* when scalar is TRUE (the gathered axis then goes away)
TakeAt(a, J, m, inner, k) ==
  a.data[(k \div (Len(J) * inner)) * m * inner
           + J[((k \div inner) % Len(J)) + 1] * inner + (k % inner) + 1]

Take(a, J, scalar, axis, m, inner, outer) ==
  IF \E j \in 1..Len(J) : J[j] < 0 \/ J[j] >= m THEN NoArray
  ELSE [ok |-> TRUE,
        shape |-> SubSeq(a.shape, 1, axis)
                    \o (IF scalar THEN <<>> ELSE <<Len(J)>>)
                    \o SubSeq(a.shape, axis + 2, Len(a.shape)),
        data |-> [k \in 1..(outer * Len(J) * inner) |->
                    TakeAt(a, J, m, inner, k - 1)]]

np_take(a, indices, scalar, axis) ==
  IF ~a.ok \/ axis < 0 \/ axis >= Len(a.shape) THEN NoArray
  ELSE Take(a,
            [j \in 1..Len(indices) |->
               IF indices[j] < 0 THEN indices[j] + a.shape[axis + 1]
               ELSE indices[j]],
            scalar, axis, a.shape[axis + 1], ProdFrom(a.shape, axis + 2),
            ProdFrom(SubSeq(a.shape, 1, axis), 1))

\* helper.slice_data(data, starts, ends, axes): half-open ranges per axis,
\* negative bounds counted from the end, bounds clamped to the dimension
Wrap(v, m) == IF v < 0 THEN v + m ELSE v

Clamp(v, m) == IF Wrap(v, m) < 0 THEN 0 ELSE IF Wrap(v, m) > m THEN m ELSE Wrap(v, m)

SliceStart(a, starts, axes, d) ==
  IF IndexOf(axes, d - 1) = 0 THEN 0
  ELSE Clamp(starts[IndexOf(axes, d - 1)], a.shape[d])

SliceEnd(a, ends, axes, d) ==
  IF IndexOf(axes, d - 1) = 0 THEN a.shape[d]
  ELSE Clamp(ends[IndexOf(axes, d - 1)], a.shape[d])

RECURSIVE SliceSrc(_, _, _, _, _, _)
SliceSrc(a, starts, axes, r, k, d) ==
  IF d > Len(r) THEN 0
  ELSE (Coord(k, r, d) + SliceStart(a, starts, axes, d)) * ProdFrom(a.shape, d + 1)
       + SliceSrc(a, starts, axes, r, k, d + 1)

SliceInto(a, starts, axes, r) ==
  [ok |-> a.ok, shape |-> r,
   data |-> [k \in 1..ProdFrom(r, 1) |->
               a.data[SliceSrc(a, starts, axes, r, k - 1, 1) + 1]]]

helper_slice_data(a, starts, ends, axes) ==
  SliceInto(a, starts, axes,
            [d \in 1..Len(a.shape) |->
               Max(0, SliceEnd(a, ends, axes, d) - SliceStart(a, starts, axes, d))])

\* onnx.helper.make_tensor(name, data_type, dims, vals): dims must be a list
make_tensor(data_type, shape, vals) ==
  [data_type |-> data_type, dims |-> shape.dims, vals |-> vals]

\* helper.list_to_constant(name, shape, data, data_type): without a data
\* type the helper takes the type of the (integer) data
list_to_constant(name, dims, data, data_type) ==
  MakeConstant(name, [data_type |-> IF data_type = 0 THEN INT64 ELSE data_type,
                      dims |-> dims, vals |-> data])

(* ------------------------- evaluators: state -------------------------- *)
\* What one evaluator invocation works on: the graph, its node_to_del list,
\* its folded flag, the exception raised (if any), and a record of what it
\* folded and removed.
EvalState(nodes, values) ==
  [node |-> nodes, value_info |-> values, node_to_del |-> <<>>,
   folded |-> FALSE, err |-> "", folds |-> <<>>, removals |-> <<>>]

\* the ValueError of list.remove(x) for an x that is not in the list
NotInList == "ValueError: x not in list"

Raise(st, e) == IF st.err # "" THEN st ELSE [st EXCEPT !.err = e]

\* g.node.extend([new_node])
AppendNode(st, new_node) ==
  IF st.err # "" THEN st ELSE [st EXCEPT !.node = Append(st.node, new_node)]

\* node_to_del.extend(ns), for the fold of node n
Schedule(st, ns, n) ==
  IF st.err # "" THEN st
  ELSE [st EXCEPT !.node_to_del =
          st.node_to_del \o [k \in 1..Len(ns) |-> [n |-> ns[k], for |-> n.output]]]

\* g.value_info.remove(v): fails for None and for a record not in the list
RemoveValue(st, v) ==
  IF st.err # "" THEN st
  ELSE IF IsNoneValue(v) \/ IndexOf(st.value_info, v) = 0 THEN Raise(st, NotInList)
  ELSE [st EXCEPT !.value_info = RemoveFirst(st.value_info, v)]

\* g.value_info.remove(helper.find_value_by_name(g, name))
RemoveValueNamed(st, name) ==
  RemoveValue(st, find_value_by_name(st.value_info, name))

\* g.value_info.extend([v])
AppendValue(st, v) ==
  IF st.err # "" THEN st ELSE [st EXCEPT !.value_info = Append(st.value_info, v)]

\* folded = True, after the fold of node n into new_node
SetFolded(st, n, new_node) ==
  IF st.err # "" THEN st
  ELSE [st EXCEPT !.folded = TRUE,
                  !.folds = Append(st.folds,
                     [n |-> n.output, op_type |-> n.op_type, t |-> new_node.t])]

(* ------------------------ evaluators: loop bodies --------------------- *)
\* Each loop body is split where the code computes something it then uses
\* several times: <op>_step looks the predecessors up, <op>_fold checks
\* them and computes, <op>_commit edits the graph.

\* ---- slice_constant_folding, for a Slice node n
slice_commit(st, n, pre_node, new_node) ==
  SetFolded(RemoveValueNamed(Schedule(AppendNode(st, new_node), <<n, pre_node>>, n),
                             pre_node.output),
            n, new_node)

\* (no data type is passed to list_to_constant, which then takes the type
\* of the elements: FLOAT for those of a FLOAT tensor, INT64 for integers)
slice_data(st, n, pre_node, data_list) ==
  IF ~data_list.ok THEN Raise(st, "ValueError")
  ELSE slice_commit(st, n, pre_node,
         list_to_constant(n.output,
           helper_slice_data(data_list, n.attr.starts, n.attr.ends,
             IF ~n.attr.has_axes
               THEN [d \in 1..Len(data_list.shape) |-> d - 1]
               ELSE n.attr.ints).shape,
           helper_slice_data(data_list, n.attr.starts, n.attr.ends,
             IF ~n.attr.has_axes
               THEN [d \in 1..Len(data_list.shape) |-> d - 1]
               ELSE n.attr.ints).data,
           IF pre_node.t.data_type = FLOAT THEN FLOAT ELSE INT64))

slice_fold(st, n, pre_node) ==
  IF IsNone(pre_node) THEN Raise(st, "AttributeError")
  ELSE IF pre_node.op_type # "Constant" THEN st
  ELSE slice_data(st, n, pre_node,
                  np_reshape(constant_to_list(pre_node).data,
                             constant_to_list(pre_node).shape))

slice_step(st, n) ==
  slice_fold(st, n, find_node_by_output_name(st.node, n.input[1]))

\* ---- gather_constant_folding, for a Gather node n
gather_edit(st, n, new_node, new_val_info, val_info_1, val_info_2, val_info_3) ==
  SetFolded(
    AppendValue(
      RemoveValue(RemoveValue(RemoveValue(st, val_info_1), val_info_2), val_info_3),
      new_val_info),
    n, new_node)

gather_commit(st, n, pre_data_node, pre_indices_node, new_data) ==
  IF ~new_data.ok THEN Raise(st, "IndexError")
  ELSE gather_edit(
         AppendNode(Schedule(st, <<n, pre_data_node, pre_indices_node>>, n),
                    list_to_constant(n.output, new_data.shape, new_data.data,
                                     pre_data_node.t.data_type)),
         n,
         list_to_constant(n.output, new_data.shape, new_data.data,
                          pre_data_node.t.data_type),
         MakeValueInfo(n.output, pre_data_node.t.data_type, new_data.shape),
         find_value_by_name(st.value_info, n.input[1]),
         find_value_by_name(st.value_info, n.input[2]),
         find_value_by_name(st.value_info, n.output))

gather_take(st, n, pre_data_node, pre_indices_node, np_data) ==
  IF ~np_data.ok THEN Raise(st, "ValueError")
  ELSE gather_commit(st, n, pre_data_node, pre_indices_node,
         np_take(np_data, constant_to_list(pre_indices_node).data,
                 constant_to_list(pre_indices_node).shape.is_int, n.attr.i))

gather_fold(st, n, pre_data_node, pre_indices_node) ==
  IF IsNone(pre_data_node) \/ IsNone(pre_indices_node)
    THEN Raise(st, "AttributeError")
  ELSE IF pre_data_node.op_type # "Constant"
            \/ pre_indices_node.op_type # "Constant" THEN st
  ELSE gather_take(st, n, pre_data_node, pre_indices_node,
                   np_reshape(constant_to_list(pre_data_node).data,
                              constant_to_list(pre_data_node).shape))

gather_step(st, n) ==
  gather_fold(st, n, find_node_by_output_name(st.node, n.input[1]),
              find_node_by_output_name(st.node, n.input[2]))

\* ---- add_constant_folding, for an Add node n
add_commit(st, n, pre_node_1, pre_node_2, new_data) ==
  IF ~new_data.ok THEN Raise(st, "RuntimeError")
  ELSE SetFolded(
         RemoveValueNamed(
           RemoveValueNamed(
             Schedule(
               AppendNode(st, list_to_constant(n.output, new_data.shape,
                                new_data.data, pre_node_1.t.data_type)),
               <<n, pre_node_1, pre_node_2>>, n),
             pre_node_1.output),
           pre_node_2.output),
         n,
         list_to_constant(n.output, new_data.shape, new_data.data,
                          pre_node_1.t.data_type))

add_data(st, n, pre_node_1, pre_node_2, np_data1, np_data2) ==
  IF ~np_data1.ok \/ ~np_data2.ok THEN Raise(st, "ValueError")
  ELSE add_commit(st, n, pre_node_1, pre_node_2,
                  np_binary("add", np_data1, np_data2))

add_fold(st, n, pre_node_1, pre_node_2) ==
  IF IsNone(pre_node_1) \/ IsNone(pre_node_2) THEN st
  ELSE IF pre_node_1.op_type # "Constant" \/ pre_node_2.op_type # "Constant"
    THEN st
  ELSE IF Len(find_nodes_by_input_name(st.node, pre_node_1.output)) # 1 THEN st
  ELSE IF Len(find_nodes_by_input_name(st.node, pre_node_2.output)) # 1 THEN st
  ELSE add_data(st, n, pre_node_1, pre_node_2,
                np_reshape(constant_to_list(pre_node_1).data,
                           constant_to_list(pre_node_1).shape),
                np_reshape(constant_to_list(pre_node_2).data,
                           constant_to_list(pre_node_2).shape))

add_step(st, n) ==
  add_fold(st, n, find_node_by_output_name(st.node, n.input[1]),
           find_node_by_output_name(st.node, n.input[2]))

\* ---- mul_constant_folding and div_constant_folding, for a Mul
\* (f = "multiply") or a Div (f = "divide") node n
muldiv_commit(st, n, pre_node_1, pre_node_2, v1, v2, new_data) ==
  IF ~new_data.ok THEN Raise(st, "RuntimeError")
  ELSE SetFolded(
         RemoveValue(
           RemoveValue(
             AppendNode(
               Schedule(st, <<n, pre_node_1, pre_node_2>>, n),
               MakeConstant(n.output,
                 make_tensor(pre_node_1.t.data_type,
                   ListShape(IF constant_to_list(pre_node_1).shape.is_int
                                /\ constant_to_list(pre_node_2).shape.is_int
                             THEN <<>> ELSE new_data.shape),
                   new_data.data))),
             v1),
           v2),
         n,
         MakeConstant(n.output,
           make_tensor(pre_node_1.t.data_type,
             ListShape(IF constant_to_list(pre_node_1).shape.is_int
                          /\ constant_to_list(pre_node_2).shape.is_int
                       THEN <<>> ELSE new_data.shape),
             new_data.data)))

muldiv_data(f, st, n, pre_node_1, pre_node_2, v1, v2, np_data1, np_data2) ==
  IF ~np_data1.ok \/ ~np_data2.ok THEN Raise(st, "ValueError")
  ELSE muldiv_commit(st, n, pre_node_1, pre_node_2, v1, v2,
                     np_binary(f, np_data1, np_data2))

muldiv_fold(f, st, n, pre_node_1, pre_node_2, pre_value_info1, pre_value_info2) ==
  IF IsNone(pre_node_1) \/ IsNone(pre_node_2) THEN Raise(st, "AttributeError")
  ELSE IF pre_node_1.op_type # "Constant" \/ pre_node_2.op_type # "Constant"
    THEN st
  ELSE IF IsNoneValue(pre_value_info1) \/ IsNoneValue(pre_value_info2) THEN st
  ELSE IF Len(find_nodes_by_input_name(st.node, pre_value_info1.name)) > 1 THEN st
  ELSE IF Len(find_nodes_by_input_name(st.node, pre_value_info2.name)) > 1 THEN st
  ELSE muldiv_data(f, st, n, pre_node_1, pre_node_2,
                   pre_value_info1, pre_value_info2,
                   np_reshape(constant_to_list(pre_node_1).data,
                              constant_to_list(pre_node_1).shape),
                   np_reshape(constant_to_list(pre_node_2).data,
                              constant_to_list(pre_node_2).shape))

mul_step(st, n) ==
  muldiv_fold("multiply", st, n,
              find_node_by_output_name(st.node, n.input[1]),
              find_node_by_output_name(st.node, n.input[2]),
              find_value_by_name(st.value_info, n.input[1]),
              find_value_by_name(st.value_info, n.input[2]))

div_step(st, n) ==
  muldiv_fold("divide", st, n,
              find_node_by_output_name(st.node, n.input[1]),
              find_node_by_output_name(st.node, n.input[2]),
              find_value_by_name(st.value_info, n.input[1]),
              find_value_by_name(st.value_info, n.input[2]))

\* ---- sub_constant_folding, for a Sub node n: the operands are
\* subtracted as the flat lists constant_to_list returns
sub_commit(st, n, pre_node_1, pre_node_2, v1, v2, new_data) ==
  IF ~new_data.ok THEN Raise(st, "ValueError")
  ELSE SetFolded(
         RemoveValue(
           RemoveValue(
             Schedule(
               AppendNode(st,
                 MakeConstant(n.output,
                   make_tensor(pre_node_1.t.data_type,
                     ListShape(IF constant_to_list(pre_node_1).shape.is_int
                                  /\ constant_to_list(pre_node_2).shape.is_int
                               THEN <<>> ELSE new_data.shape),
                     new_data.data))),
               <<n, pre_node_1, pre_node_2>>, n),
             v1),
           v2),
         n,
         MakeConstant(n.output,
           make_tensor(pre_node_1.t.data_type,
             ListShape(IF constant_to_list(pre_node_1).shape.is_int
                          /\ constant_to_list(pre_node_2).shape.is_int
                       THEN <<>> ELSE new_data.shape),
             new_data.data)))

sub_fold(st, n, pre_node_1, pre_node_2, pre_val_info_1, pre_val_info_2) ==
  IF IsNone(pre_node_1) \/ IsNone(pre_node_2) THEN Raise(st, "AttributeError")
  ELSE IF pre_node_1.op_type # "Constant" THEN st
  ELSE IF pre_node_2.op_type # "Constant" THEN st
  ELSE IF Len(find_nodes_by_input_name(st.node, n.input[1])) > 1 THEN st
  ELSE IF Len(find_nodes_by_input_name(st.node, n.input[2])) > 1 THEN st
  ELSE sub_commit(st, n, pre_node_1, pre_node_2, pre_val_info_1, pre_val_info_2,
                  np_binary("subtract",
                            np_array(constant_to_list(pre_node_1).data),
                            np_array(constant_to_list(pre_node_2).data)))

sub_step(st, n) ==
  sub_fold(st, n,
           find_node_by_output_name(st.node, n.input[1]),
           find_node_by_output_name(st.node, n.input[2]),
           find_value_by_name(st.value_info, n.input[1]),
           find_value_by_name(st.value_info, n.input[2]))

\* ---- neg_constant_folding, for a Neg node n
neg_commit(st, n, pre_node, new_node) ==
  SetFolded(RemoveValueNamed(Schedule(AppendNode(st, new_node), <<pre_node, n>>, n),
                             n.input[1]),
            n, new_node)

neg_fold(st, n, pre_node) ==
  IF IsNone(pre_node) \/ pre_node.op_type # "Constant" THEN st
  ELSE IF constant_to_list(pre_node).shape.is_int THEN Raise(st, "TypeError")
  ELSE neg_commit(st, n, pre_node,
         MakeConstant(n.output,
           make_tensor(pre_node.t.data_type, constant_to_list(pre_node).shape,
             [k \in 1..Len(constant_to_list(pre_node).data) |->
                0 - constant_to_list(pre_node).data[k]])))

neg_step(st, n) ==
  neg_fold(st, n, find_node_by_output_name(st.node, n.input[1]))

\* ---- floor_constant_folding, for a Floor node n (the model's elements
\* are integers, which np.floor leaves as they are)
floor_remove(st, old_value) ==
  IF IsNoneValue(old_value) THEN st ELSE RemoveValue(st, old_value)

floor_commit(st, n, pre_node, new_node) ==
  SetFolded(floor_remove(Schedule(AppendNode(st, new_node), <<pre_node, n>>, n),
                         find_value_by_name(st.value_info, n.input[1])),
            n, new_node)

floor_fold(st, n, pre_node) ==
  IF IsNone(pre_node) \/ pre_node.op_type # "Constant" THEN st
  ELSE floor_commit(st, n, pre_node,
         MakeConstant(n.output,
           make_tensor(pre_node.t.data_type,
             IF constant_to_list(pre_node).shape.is_int THEN ListShape(<<>>)
             ELSE constant_to_list(pre_node).shape,
             constant_to_list(pre_node).data)))

floor_step(st, n) ==
  floor_fold(st, n, find_node_by_output_name(st.node, n.input[1]))

\* ---- cast_constant_folding, for a Cast node n ("to" is attribute[0].i).
\* int() and float() leave the model's integer elements as they are; the
\* target type is what the new tensor records.
cast_commit(st, n, pre_node, new_node) ==
  SetFolded(RemoveValueNamed(RemoveValueNamed(Schedule(AppendNode(st, new_node),
                                                       <<pre_node, n>>, n),
                                              pre_node.output),
                             n.output),
            n, new_node)

\* a Cast evaluator that skips the node whose target type it does not know
cast_fold_skipping(st, n, pre_node) ==
  IF IsNone(pre_node) THEN st
  ELSE IF pre_node.op_type # "Constant" THEN st
  ELSE IF n.attr.i \notin {INT32, INT64, FLOAT} THEN st
  ELSE cast_commit(st, n, pre_node,
         MakeConstant(n.output,
           make_tensor(n.attr.i,
             IF constant_to_list(pre_node).shape.is_int THEN ListShape(<<>>)
             ELSE constant_to_list(pre_node).shape,
             constant_to_list(pre_node).data)))

cast_fold(st, n, pre_node) ==
  IF IsNone(pre_node) THEN st
  ELSE IF pre_node.op_type # "Constant" THEN st
  ELSE IF n.attr.i \notin {INT32, INT64, FLOAT} THEN Raise(st, "RuntimeError")
  ELSE cast_commit(st, n, pre_node,
         MakeConstant(n.output,
           make_tensor(n.attr.i,
             IF constant_to_list(pre_node).shape.is_int THEN ListShape(<<>>)
             ELSE constant_to_list(pre_node).shape,
             constant_to_list(pre_node).data)))

cast_step(st, n) ==
  cast_fold(st, n, find_node_by_output_name(st.node, n.input[1]))

\* ---- sqrt_constant_folding, for a Sqrt node n (the model's elements
\* under a Sqrt are squares; np_sqrt is the integer root)
np_sqrt(a) ==
  IF ~a.ok THEN a
  ELSE [a EXCEPT !.data = [k \in 1..Len(a.data) |->
                             CHOOSE r \in 0..a.data[k] : r * r = a.data[k]]]

sqrt_commit(st, n, pre_node, new_node, input_val_info) ==
  SetFolded(AppendNode(Schedule(RemoveValue(st, input_val_info), <<pre_node, n>>, n),
                       new_node),
            n, new_node)

sqrt_tensor(st, n, pre_node, np_data, output_val_info, input_val_info) ==
  IF ~np_data.ok THEN Raise(st, "ValueError")
  ELSE IF IsNoneValue(output_val_info) THEN Raise(st, "AttributeError")
  ELSE IF constant_to_list(pre_node).shape.is_int THEN Raise(st, "TypeError")
  ELSE sqrt_commit(st, n, pre_node,
         MakeConstant(n.output,
           make_tensor(output_val_info.elem_type, constant_to_list(pre_node).shape,
                       np_data.data)),
         input_val_info)

sqrt_fold(st, n, pre_node) ==
  IF IsNone(pre_node) THEN Raise(st, "AttributeError")
  ELSE IF pre_node.op_type # "Constant" THEN st
  ELSE sqrt_tensor(st, n, pre_node,
         np_sqrt(np_reshape(constant_to_list(pre_node).data,
                            constant_to_list(pre_node).shape)),
         find_value_by_name(st.value_info, n.output),
         find_value_by_name(st.value_info, n.input[1]))

sqrt_step(st, n) ==
  sqrt_fold(st, n, find_node_by_output_name(st.node, n.input[1]))

\* ---- reciprocal_constant_folding, for a Reciprocal node n.  The elements
\* of the Constant under a Reciprocal count units of 1e-9, so that 1.e-8
\* is Eps; the elements of the result count units of 1, so that the
\* reciprocal of x is Scale \div x (the quotients the model forms are exact).
Eps == 10

Scale == 10 ^ 9

Abs(x) == IF x < 0 THEN 0 - x ELSE x

\* line 680: lambda x: x if abs(x) > 1.e-8 else 1.e-8
ClampTiny(x) == IF Abs(x) > Eps THEN x ELSE Eps

np_reciprocal(a) ==
  IF ~a.ok THEN a
  ELSE [a EXCEPT !.data = [k \in 1..Len(a.data) |-> Scale \div a.data[k]]]

reciprocal_commit(st, n, pre_node, new_node, input_val_info) ==
  SetFolded(RemoveValue(AppendNode(Schedule(st, <<n, pre_node>>, n), new_node),
                        input_val_info),
            n, new_node)

reciprocal_tensor(st, n, pre_node, np_data, input_val_info, output_val_info) ==
  IF ~np_data.ok THEN Raise(st, "ValueError")
  ELSE IF IsNoneValue(output_val_info) THEN Raise(st, "AttributeError")
  ELSE IF constant_to_list(pre_node).shape.is_int THEN Raise(st, "TypeError")
  ELSE reciprocal_commit(st, n, pre_node,
         MakeConstant(n.output,
           make_tensor(output_val_info.elem_type, constant_to_list(pre_node).shape,
                       np_data.data)),
         input_val_info)

reciprocal_fold(st, n, pre_node) ==
  IF IsNone(pre_node) THEN Raise(st, "AttributeError")
  ELSE IF pre_node.op_type # "Constant" THEN st
  ELSE reciprocal_tensor(st, n, pre_node,
         np_reciprocal(
           np_reshape([k \in 1..Len(constant_to_list(pre_node).data) |->
                         ClampTiny(constant_to_list(pre_node).data[k])],
                      constant_to_list(pre_node).shape)),
         find_value_by_name(st.value_info, n.input[1]),
         find_value_by_name(st.value_info, n.output))

reciprocal_step(st, n) ==
  reciprocal_fold(st, n, find_node_by_output_name(st.node, n.input[1]))

\* ---- reduceprod_constant_folding, for a ReduceProd node n ("axes" is
\* attr.ints, "keepdims" is attr.i)
\* the dimensions of s that are not reduced
RECURSIVE DropAxes(_, _, _)
DropAxes(s, axes, d) ==
  IF d > Len(s) THEN <<>>
  ELSE (IF d - 1 \in axes THEN <<>> ELSE <<s[d]>>) \o DropAxes(s, axes, d + 1)

\* the product of the elements of a, from flat position p (from 0) on,
\* that lie at position k (from 0) of the result of shape r once the axes
\* are reduced to size 1
RECURSIVE ProdAt(_, _, _, _, _)
ProdAt(a, axes, r, k, p) ==
  IF p >= Len(a.data) THEN 1
  ELSE (IF \A d \in 1..Len(r) : d - 1 \in axes \/ Coord(p, a.shape, d) = Coord(k, r, d)
          THEN a.data[p + 1] ELSE 1)
       * ProdAt(a, axes, r, k, p + 1)

ProdInto(a, axes, keepdims, r) ==
  [ok |-> TRUE,
   shape |-> IF keepdims THEN r ELSE DropAxes(r, axes, 1),
   data |-> [k \in 1..ProdFrom(r, 1) |-> ProdAt(a, axes, r, k - 1, 0)]]

\* np.prod(a, axis=tuple(axes), keepdims=keepdims)
np_prod(a, axes, keepdims) ==
  IF ~a.ok THEN a
  ELSE IF \E j \in 1..Len(axes) : axes[j] >= Len(a.shape) \/ axes[j] < 0 - Len(a.shape)
    THEN NoArray
  ELSE ProdInto(a, {Wrap(axes[j], Len(a.shape)) : j \in 1..Len(axes)}, keepdims,
                [d \in 1..Len(a.shape) |->
                   IF d - 1 \in {Wrap(axes[j], Len(a.shape)) : j \in 1..Len(axes)}
                     THEN 1 ELSE a.shape[d]])

\* "for item in g.value_info: if item.name == name: value_info = item"
RECURSIVE LastValueNamed(_, _, _)
LastValueNamed(values, name, i) ==
  IF i = 0 THEN NoneValue
  ELSE IF values[i].name = name THEN values[i]
  ELSE LastValueNamed(values, name, i - 1)

reduceprod_remove(st, value_info) ==
  IF IsNoneValue(value_info) THEN st ELSE RemoveValue(st, value_info)

reduceprod_commit(st, n, pre_node, new_node) ==
  SetFolded(reduceprod_remove(AppendNode(Schedule(st, <<pre_node, n>>, n), new_node),
                              LastValueNamed(st.value_info, pre_node.output,
                                             Len(st.value_info))),
            n, new_node)

reduceprod_data(st, n, pre_node, new_data) ==
  IF ~new_data.ok THEN Raise(st, "AxisError")
  ELSE reduceprod_commit(st, n, pre_node,
         MakeConstant(n.output,
           make_tensor(pre_node.t.data_type, ListShape(new_data.shape), new_data.data)))

\* a node without an axes attribute reads a variable that was never
\* assigned (no earlier node of the loop has assigned it in the graphs of
\* the model)
reduceprod_fold(st, n, pre_node) ==
  IF IsNone(pre_node) THEN Raise(st, "AttributeError")
  ELSE IF pre_node.op_type # "Constant" THEN st
  ELSE IF ~n.attr.has_axes THEN Raise(st, "UnboundLocalError")
  ELSE reduceprod_data(st, n, pre_node,
         np_prod(np_reshape(constant_to_list(pre_node).data,
                            constant_to_list(pre_node).shape),
                 n.attr.ints, n.attr.i = 1))

reduceprod_step(st, n) ==
  reduceprod_fold(st, n, find_node_by_output_name(st.node, n.input[1]))

\* ---- reshape_constant_input_folding, for a Reshape node n
\* np.reshape(a, shape) for a list of dimensions, one of which may be -1
\* (the dimension that takes what is left)
RECURSIVE ProdKnown(_, _)
ProdKnown(shape, i) ==
  IF i > Len(shape) THEN 1
  ELSE (IF shape[i] = -1 THEN 1 ELSE shape[i]) * ProdKnown(shape, i + 1)

np_reshape_to(a, shape) ==
  IF ~a.ok THEN a
  ELSE IF \E i \in 1..Len(shape) : shape[i] < -1 THEN NoArray
  ELSE IF Cardinality({i \in 1..Len(shape) : shape[i] = -1}) > 1 THEN NoArray
  ELSE IF \A i \in 1..Len(shape) : shape[i] # -1
    THEN ReshapeTo(a.data, shape)
  ELSE IF ProdKnown(shape, 1) = 0 \/ Len(a.data) % ProdKnown(shape, 1) # 0 THEN NoArray
  ELSE ReshapeTo(a.data,
                 [i \in 1..Len(shape) |->
                    IF shape[i] = -1 THEN Len(a.data) \div ProdKnown(shape, 1)
                    ELSE shape[i]])

\* helper.constant_to_numpy(node): the array of the tensor, in its shape
constant_to_numpy(n) == ReshapeTo(n.t.vals, n.t.dims)

reshape_commit(st, n, pre_data_node, pre_shape_node, new_node, data_val_info, shape_val_info) ==
  SetFolded(
    RemoveValue(
      RemoveValue(Schedule(AppendNode(st, new_node),
                           <<n, pre_data_node, pre_shape_node>>, n),
                  data_val_info),
      shape_val_info),
    n, new_node)

reshape_data(st, n, pre_data_node, pre_shape_node, new_data) ==
  IF ~new_data.ok THEN Raise(st, "ValueError")
  ELSE reshape_commit(st, n, pre_data_node, pre_shape_node,
         MakeConstant(n.output,
           make_tensor(pre_data_node.t.data_type,
                       ListShape(constant_to_list(pre_shape_node).data),
                       new_data.data)),
         find_value_by_name(st.value_info, pre_data_node.output),
         find_value_by_name(st.value_info, pre_shape_node.output))

reshape_fold(st, n, pre_data_node, pre_shape_node) ==
  IF IsNone(pre_data_node) \/ IsNone(pre_shape_node) THEN Raise(st, "AttributeError")
  ELSE IF pre_data_node.op_type # "Constant"
            \/ pre_shape_node.op_type # "Constant" THEN st
  ELSE IF Len(find_nodes_by_input_name(st.node, pre_data_node.output)) > 1 THEN st
  ELSE IF Len(find_nodes_by_input_name(st.node, pre_shape_node.output)) > 1 THEN st
  ELSE reshape_data(st, n, pre_data_node, pre_shape_node,
         np_reshape_to(constant_to_numpy(pre_data_node),
                       constant_to_list(pre_shape_node).data))

reshape_step(st, n) ==
  reshape_fold(st, n, find_node_by_output_name(st.node, n.input[1]),
               find_node_by_output_name(st.node, n.input[2]))

\* ---- concat_constant_folding, for a Concat node n (the axis is attr.i)
\* np.concatenate(arrs, axis): ax is the axis counted from 1
RECURSIVE SumAxis(_, _, _)
SumAxis(arrs, ax, i) ==
  IF i > Len(arrs) THEN 0 ELSE arrs[i].shape[ax] + SumAxis(arrs, ax, i + 1)

\* flat position (from 0) in an operand of shape s, which begins at off
\* along the axis, of the element at flat position k of the result
RECURSIVE ConcatPos(_, _, _, _, _, _)
ConcatPos(k, r, s, ax, off, d) ==
  IF d > Len(s) THEN 0
  ELSE (Coord(k, r, d) - (IF d = ax THEN off ELSE 0)) * ProdFrom(s, d + 1)
       + ConcatPos(k, r, s, ax, off, d + 1)

RECURSIVE ConcatAt(_, _, _, _, _, _)
ConcatAt(arrs, ax, r, k, i, off) ==
  IF Coord(k, r, ax) < off + arrs[i].shape[ax]
    THEN arrs[i].data[ConcatPos(k, r, arrs[i].shape, ax, off, 1) + 1]
  ELSE ConcatAt(arrs, ax, r, k, i + 1, off + arrs[i].shape[ax])

ConcatInto(arrs, ax, r) ==
  [ok |-> TRUE, shape |-> r,
   data |-> [k \in 1..ProdFrom(r, 1) |-> ConcatAt(arrs, ax, r, k - 1, 1, 0)]]

np_concatenate(arrs, axis) ==
  IF arrs = <<>> \/ \E i \in 1..Len(arrs) : ~arrs[i].ok THEN NoArray
  ELSE IF \E i \in 1..Len(arrs) : Len(arrs[i].shape) # Len(arrs[1].shape) THEN NoArray
  ELSE IF axis >= Len(arrs[1].shape) \/ axis < 0 - Len(arrs[1].shape) THEN NoArray
  ELSE IF \E i \in 1..Len(arrs) : \E d \in 1..Len(arrs[1].shape) :
            d # Wrap(axis, Len(arrs[1].shape)) + 1 /\ arrs[i].shape[d] # arrs[1].shape[d]
    THEN NoArray
  ELSE ConcatInto(arrs, Wrap(axis, Len(arrs[1].shape)) + 1,
                  [arrs[1].shape EXCEPT ![Wrap(axis, Len(arrs[1].shape)) + 1] =
                     SumAxis(arrs, Wrap(axis, Len(arrs[1].shape)) + 1, 1)])

\* lines 368-377: 0 when every input is read by one node and produced by a
\* Constant, 1 when one is not, 2 when one has no producer (the read of
\* op_type fails)
RECURSIVE ConcatInputs(_, _, _)
ConcatInputs(nodes, n, k) ==
  IF k > Len(n.input) THEN 0
  ELSE IF Len(find_nodes_by_input_name(nodes, n.input[k])) > 1 THEN 1
  ELSE IF IsNone(find_node_by_output_name(nodes, n.input[k])) THEN 2
  ELSE IF find_node_by_output_name(nodes, n.input[k]).op_type # "Constant" THEN 1
  ELSE ConcatInputs(nodes, n, k + 1)

\* lines 402-404: the Value record of each input is looked up and removed
RECURSIVE ConcatRemove(_, _, _)
ConcatRemove(st, n, k) ==
  IF k > Len(n.input) THEN st
  ELSE ConcatRemove(RemoveValueNamed(st, n.input[k]), n, k + 1)

concat_commit(st, n, input_nodes, new_node) ==
  SetFolded(ConcatRemove(Schedule(AppendNode(st, new_node),
                                  Append(input_nodes, n), n),
                         n, 1),
            n, new_node)

concat_data(st, n, input_nodes, concat_array) ==
  IF ~concat_array.ok THEN Raise(st, "ValueError")
  ELSE concat_commit(st, n, input_nodes,
         list_to_constant(n.output, concat_array.shape, concat_array.data,
                          input_nodes[Len(input_nodes)].t.data_type))

concat_fold(st, n, input_nodes) ==
  concat_data(st, n, input_nodes,
    np_concatenate([k \in 1..Len(input_nodes) |->
                      np_reshape(constant_to_list(input_nodes[k]).data,
                                 constant_to_list(input_nodes[k]).shape)],
                   n.attr.i))

concat_step(st, n) ==
  IF ConcatInputs(st.node, n, 1) = 2 THEN Raise(st, "AttributeError")
  ELSE IF ConcatInputs(st.node, n, 1) = 1 THEN st
  ELSE concat_fold(st, n,
         [k \in 1..Len(n.input) |-> find_node_by_output_name(st.node, n.input[k])])

\* the fold of node n into new_node, noted without setting folded
RecordFold(st, n, new_node) ==
  IF st.err # "" THEN st
  ELSE [st EXCEPT !.folds = Append(st.folds,
                     [n |-> n.output, op_type |-> n.op_type, t |-> new_node.t])]

\* ---- transpose_constant_folding, for a Transpose node n (the
\* permutation is attr.ints)
RECURSIVE TransposePos(_, _, _, _, _)
TransposePos(k, r, s, perm, d) ==
  IF d > Len(r) THEN 0
  ELSE Coord(k, r, d) * ProdFrom(s, perm[d] + 2) + TransposePos(k, r, s, perm, d + 1)

TransposeInto(a, perm, r) ==
  [ok |-> TRUE, shape |-> r,
   data |-> [k \in 1..ProdFrom(r, 1) |->
               a.data[TransposePos(k - 1, r, a.shape, perm, 1) + 1]]]

TransposeBy(a, perm) ==
  IF {perm[d] : d \in 1..Len(perm)} # 0..(Len(a.shape) - 1) THEN NoArray
  ELSE TransposeInto(a, perm, [d \in 1..Len(perm) |-> a.shape[perm[d] + 1]])

\* np.transpose(a, permutation)
np_transpose(a, permutation) ==
  IF ~a.ok \/ Len(permutation) # Len(a.shape) THEN NoArray
  ELSE IF \E d \in 1..Len(permutation) :
            permutation[d] >= Len(a.shape) \/ permutation[d] < 0 - Len(a.shape)
    THEN NoArray
  ELSE TransposeBy(a, [d \in 1..Len(permutation) |-> Wrap(permutation[d], Len(a.shape))])

\* lines 439-453; folded is set by the removal loop (line 458), which
\* runs when node_to_del is not empty
transpose_commit(st, n, pre_node, new_data, new_node) ==
  RecordFold(
    AppendValue(
      RemoveValueNamed(
        RemoveValueNamed(Schedule(AppendNode(st, new_node), <<n, pre_node>>, n),
                         n.input[1]),
        n.output),
      MakeValueInfo(n.output, pre_node.t.data_type, new_data.shape)),
    n, new_node)

transpose_data(st, n, pre_node, new_data) ==
  IF ~new_data.ok THEN Raise(st, "ValueError")
  ELSE transpose_commit(st, n, pre_node, new_data,
         list_to_constant(n.output, new_data.shape, new_data.data,
                          pre_node.t.data_type))

transpose_fold(st, n, pre_node) ==
  IF IsNone(pre_node) THEN Raise(st, "AttributeError")
  ELSE IF pre_node.op_type # "Constant" THEN st
  ELSE transpose_data(st, n, pre_node,
         np_transpose(np_reshape(constant_to_list(pre_node).data,
                                 constant_to_list(pre_node).shape),
                      n.attr.ints))

transpose_step(st, n) ==
  transpose_fold(st, n, find_node_by_output_name(st.node, n.input[1]))

\* line 458: "folded = True" inside "while node_to_del"
transpose_flag(op_type, st) ==
  IF op_type = "Transpose" /\ st.err = "" /\ st.node_to_del # <<>>
    THEN [st EXCEPT !.folded = TRUE]
  ELSE st

\* ---- unsqueeze_constant_folding1, for an Unsqueeze node n (the axes are
\* attr.ints)
\* list.sort()
RECURSIVE Insert(_, _)
Insert(s, x) ==
  IF s = <<>> THEN <<x>>
  ELSE IF x < Head(s) THEN <<x>> \o s
  ELSE <<Head(s)>> \o Insert(Tail(s), x)

RECURSIVE Sort(_)
Sort(s) == IF s = <<>> THEN <<>> ELSE Insert(Sort(Tail(s)), Head(s))

\* np.expand_dims(a, axis)
np_expand_dims(a, axis) ==
  IF ~a.ok \/ axis > Len(a.shape) \/ axis < 0 - Len(a.shape) - 1 THEN NoArray
  ELSE [a EXCEPT !.shape =
          SubSeq(a.shape, 1, Wrap(axis, Len(a.shape) + 1)) \o <<1>>
            \o SubSeq(a.shape, Wrap(axis, Len(a.shape) + 1) + 1, Len(a.shape))]

\* "for dim in axes: np_data = np.expand_dims(np_data, axis=dim)"
RECURSIVE ExpandAll(_, _, _)
ExpandAll(a, axes, i) ==
  IF i > Len(axes) THEN a ELSE ExpandAll(np_expand_dims(a, axes[i]), axes, i + 1)

unsqueeze_commit(st, n, pre_node, np_data, new_node, pre_val_info, next_val_info) ==
  SetFolded(
    AppendValue(
      RemoveValue(RemoveValue(Schedule(AppendNode(st, new_node), <<n, pre_node>>, n),
                              pre_val_info),
                  next_val_info),
      MakeValueInfo(n.output, pre_node.t.data_type, np_data.shape)),
    n, new_node)

unsqueeze_data(st, n, pre_node, np_data) ==
  IF ~np_data.ok THEN Raise(st, "AxisError")
  ELSE unsqueeze_commit(st, n, pre_node, np_data,
         list_to_constant(n.output, np_data.shape, np_data.data,
                          pre_node.t.data_type),
         find_value_by_name(st.value_info, n.input[1]),
         find_value_by_name(st.value_info, n.output))

\* for the integer shape np_data is data[0], a number: it has a shape only
\* once np.expand_dims has made an array of it
unsqueeze_fold(st, n, pre_node) ==
  IF IsNone(pre_node) THEN Raise(st, "AttributeError")
  ELSE IF pre_node.op_type # "Constant" THEN st
  ELSE IF constant_to_list(pre_node).shape.is_int /\ n.attr.ints = <<>>
    THEN Raise(st, "AttributeError")
  ELSE unsqueeze_data(st, n, pre_node,
         ExpandAll(IF constant_to_list(pre_node).shape.is_int
                     THEN ReshapeTo(<<constant_to_list(pre_node).data[1]>>, <<>>)
                   ELSE np_reshape(constant_to_list(pre_node).data,
                                   constant_to_list(pre_node).shape),
                   Sort(n.attr.ints), 1))

unsqueeze_step(st, n) ==
  unsqueeze_fold(st, n, find_node_by_output_name(st.node, n.input[1]))

(* ----------------------- evaluators: the frame ------------------------ *)
\* the loop body of the evaluator registered for op_type
Step(op_type, st, n) ==
  CASE op_type = "Slice" -> slice_step(st, n)
    [] op_type = "Gather" -> gather_step(st, n)
    [] op_type = "Add" -> add_step(st, n)
    [] op_type = "Mul" -> mul_step(st, n)
    [] op_type = "Div" -> div_step(st, n)
    [] op_type = "Sub" -> sub_step(st, n)
    [] op_type = "Neg" -> neg_step(st, n)
    [] op_type = "Floor" -> floor_step(st, n)
    [] op_type = "Cast" -> cast_step(st, n)
    [] op_type = "Sqrt" -> sqrt_step(st, n)
    [] op_type = "Transpose" -> transpose_step(st, n)
    [] op_type = "Unsqueeze" -> unsqueeze_step(st, n)
    [] op_type = "Reshape" -> reshape_step(st, n)
    [] op_type = "Concat" -> concat_step(st, n)
    [] op_type = "ReduceProd" -> reduceprod_step(st, n)
    [] op_type = "Reciprocal" -> reciprocal_step(st, n)

\* "for node in g.node: if node.op_type != op_type: continue; ...": every
\* node of the kind is visited, the list only grows during the loop
RECURSIVE EvalLoop(_, _, _)
EvalLoop(op_type, st, i) ==
  IF st.err # "" \/ i > Len(st.node) THEN st
  ELSE EvalLoop(op_type,
                IF st.node[i].op_type = op_type
                  THEN Step(op_type, st, st.node[i]) ELSE st,
                i + 1)

\* "g.node.remove(e.n)" for the popped entry e, which the list holds at
\* position i (0: not in the list).  The removal of a Constant is logged
\* with the other nodes that read it at that moment.
DelOne(st, e, i) ==
  IF i = 0 THEN Raise(st, NotInList)
  ELSE [st EXCEPT
          !.node = RemoveAt(st.node, i),
          !.removals =
             IF e.n.op_type # "Constant" THEN @
             ELSE Append(@, [const |-> e.n.output, for |-> e.for,
                             others |-> Readers(RemoveAt(st.node, i), e.n.output)
                                          \ {e.for}])]

\* a removal loop that empties node_to_del and removes nothing
DelLoop_keeping(st) ==
  IF st.err # "" THEN st ELSE [st EXCEPT !.node_to_del = <<>>]

\* "while node_to_del: g.node.remove(node_to_del.pop())"
RECURSIVE DelLoop(_)
DelLoop(st) ==
  IF st.err # "" \/ st.node_to_del = <<>> THEN st
  ELSE DelLoop(DelOne([st EXCEPT !.node_to_del = SubSeq(@, 1, Len(@) - 1)],
                      st.node_to_del[Len(st.node_to_del)],
                      IndexOf(st.node, st.node_to_del[Len(st.node_to_del)].n)))

\* an evaluator that returns without sorting the graph
constant_folding_nodes_unsorted(op_type, nodes, values) ==
  DelLoop(transpose_flag(op_type, EvalLoop(op_type, EvalState(nodes, values), 1)))

\* constant_folding_nodes[op_type](g): the loop, the removals, the sort
constant_folding_nodes(op_type, nodes, values) ==
  SortGraph(DelLoop(transpose_flag(op_type,
                                   EvalLoop(op_type, EvalState(nodes, values), 1))))

(* --------------------------- initial graphs --------------------------- *)
\* the k-th constant of a graph: an INT64 vector of k zeros
ConstNode(k) ==
  MakeConstant("c" \o Str(k),
               [data_type |-> INT64, dims |-> <<k>>, vals |-> [j \in 1..k |-> 0]])

OpNode(j, op_type, input) ==
  [name |-> "v" \o Str(j), op_type |-> op_type, input |-> input,
   output |-> "v" \o Str(j), attr |-> NoAttr, t |-> NoTensor]

UnaryKinds == {"Neg", "Relu"}
BinaryKinds == {"Gather"}

\* what the j-th operator of a graph with nc constants may read
Avail(nc, j) ==
  {"c" \o Str(k) : k \in 1..nc} \cup {"v" \o Str(k) : k \in 1..(j - 1)}

OpChoices(nc, j) ==
  {OpNode(j, op, <<a>>) : op \in UnaryKinds, a \in Avail(nc, j) \cup GraphInputs}
  \cup {OpNode(j, op[1], <<op[2], op[3]>>) :
          op \in BinaryKinds \X Avail(nc, j) \X Avail(nc, j)}

RECURSIVE OpSeqs(_, _)
OpSeqs(nc, k) ==
  IF k = 0 THEN {<<>>}
  ELSE {Append(ops, n) : ops \in OpSeqs(nc, k - 1), n \in OpChoices(nc, k)}

\* one Value record per node output
ValuesOf(nodes) ==
  [k \in 1..Len(nodes) |->
     IF nodes[k].op_type = "Constant"
       THEN MakeValueInfo(nodes[k].output, nodes[k].t.data_type, nodes[k].t.dims)
       ELSE MakeValueInfo(nodes[k].output, INT64, <<>>)]

NoGate ==
  [node |-> "", result |-> FALSE,
   before |-> [node |-> <<>>, value_info |-> <<>>]]
NoEval ==
  [op_type |-> "", at |-> "", folded |-> FALSE, err |-> "", folds |-> <<>>,
   removals |-> <<>>, before |-> <<>>]
NoDup == [done |-> FALSE, err |-> "", clones |-> <<>>, removed |-> <<>>]

\* the state in which constant_folding(g) is entered
InitWith(nodes, values) ==
  /\ g_node = nodes
  /\ g_value_info = values
  /\ pc = "dup"
  /\ idx = 0
  /\ keep_folding = FALSE
  /\ folded = FALSE
  /\ calls = 1
  /\ entry = [node |-> nodes, value_info |-> values]
  /\ returned = <<>>
  /\ gate = NoGate
  /\ last_eval = NoEval
  /\ dup_log = NoDup
  /\ reports = <<>>

InitGraph(consts, ops) == InitWith(consts \o ops, ValuesOf(consts \o ops))

Init ==
  \E nc \in 1..MaxConsts, k \in 1..MaxOps :
    \E ops \in OpSeqs(nc, k) :
      /\ \A c \in 1..nc : \E j \in 1..k : "c" \o Str(c) \in Range(ops[j].input)
      /\ InitGraph([c \in 1..nc |-> ConstNode(c)], ops)

\* Graphs of one arithmetic node over two FLOAT constants of any shapes of
\* rank <= MaxRank with dims <= MaxDim, the rank-0 shape included.  The
\* elements of the first operand are multiples of 6 and those of the second
\* are 1, 2 or 3, so every quotient is exact.
Shapes == UNION {[1..r -> 1..MaxDim] : r \in 0..MaxRank}

ArithKinds == {"Add", "Sub", "Mul", "Div"}

ArithConst(k, dims) ==
  MakeConstant("c" \o Str(k),
               [data_type |-> FLOAT, dims |-> dims,
                vals |-> [j \in 1..ProdFrom(dims, 1) |->
                            IF k = 1 THEN 6 * j ELSE ((j - 1) % 3) + 1]])

InitArith ==
  \E s1 \in Shapes, s2 \in Shapes, op \in ArithKinds :
    InitGraph(<<ArithConst(1, s1), ArithConst(2, s2)>>,
              <<OpNode(1, op, <<"c1", "c2">>)>>)

\* Graphs of one node of a registered kind over its Constant operands,
\* with any subset of the Value records present, alone or followed by a
\* Relu node or by a Neg node that reads its output.  The data operand c1
\* is FLOAT.
KindShapes == {<<>>, <<2>>, <<2, 3>>}

\* the types a Cast may ask for: the three the evaluator knows, and DOUBLE
DataTypes == {FLOAT, INT32, INT64, 11}

\* a FLOAT constant of squares, for Sqrt
SquareConst(k, dims) ==
  MakeConstant("c" \o Str(k),
               [data_type |-> FLOAT, dims |-> dims,
                vals |-> [j \in 1..ProdFrom(dims, 1) |-> j * j]])

\* a FLOAT constant for Reciprocal, in units of 1e-9: elements above, at
\* and below 1.e-8 in magnitude, of both signs, and 0
TinyVals == <<-20, -5, 0, 5, 10, 20>>

TinyConst(k, dims) ==
  MakeConstant("c" \o Str(k),
               [data_type |-> FLOAT, dims |-> dims,
                vals |-> [j \in 1..ProdFrom(dims, 1) |->
                            TinyVals[((j - 1) % Len(TinyVals)) + 1]]])

IntConst(k, dims, vals) ==
  MakeConstant("c" \o Str(k), [data_type |-> INT64, dims |-> dims, vals |-> vals])

KindNode(op_type, input, attr) == [OpNode(1, op_type, input) EXCEPT !.attr = attr]

\* the constants and the node of each graph of the family, for a data
\* operand of shape s
KindGraphs(s) ==
  {<<(<<ArithConst(1, s)>>), KindNode("Cast", <<"c1">>, [NoAttr EXCEPT !.i = t])>> :
      t \in DataTypes}
  \cup {<<(<<ArithConst(1, s)>>), KindNode(op, <<"c1">>, NoAttr)>> :
          op \in {"Neg", "Floor"}}
  \cup {<<(<<ArithConst(1, s)>>),
          KindNode("ReduceProd", <<"c1">>,
                   [NoAttr EXCEPT !.has_axes = TRUE, !.ints = <<0>>, !.i = keepdims])>> :
          keepdims \in {0, 1}}
  \cup {<<(<<ArithConst(1, s), IntConst(2, <<Len(d)>>, d)>>),
          KindNode("Reshape", <<"c1", "c2">>, NoAttr)>> :
          d \in {<<ProdFrom(s, 1)>>, <<ProdFrom(s, 1), 1>>, <<-1, 1>>, <<4>>}}
  \cup {<<(<<ArithConst(1, s), ArithConst(2, s)>>),
          KindNode("Concat", <<"c1", "c2">>, NoAttr)>>,
        <<(<<ArithConst(1, s)>>), KindNode("Concat", <<"c1", "c1">>, NoAttr)>>}
  \cup {<<(<<ArithConst(1, s)>>),
          KindNode("Transpose", <<"c1">>, [NoAttr EXCEPT !.ints = perm])>> :
          perm \in {<<0>>, <<1, 0>>}}
  \cup {<<(<<ArithConst(1, s)>>),
          KindNode("Unsqueeze", <<"c1">>, [NoAttr EXCEPT !.ints = axes])>> :
          axes \in {<<0>>, <<1, 0>>}}
  \cup {<<(<<SquareConst(1, s)>>), KindNode("Sqrt", <<"c1">>, NoAttr)>>}
  \cup {<<(<<TinyConst(1, s)>>), KindNode("Reciprocal", <<"c1">>, NoAttr)>>}
  \cup {<<(<<ArithConst(1, s)>>), KindNode(op, <<"c1", "c1">>, NoAttr)>> :
          op \in ArithKinds}
  \cup {<<(<<ArithConst(1, s), ArithConst(2, s)>>),
          KindNode(op, <<"c1", "c2">>, NoAttr)>> : op \in ArithKinds}
  \cup {<<(<<ArithConst(1, s), IntConst(2, d, [j \in 1..ProdFrom(d, 1) |-> 0])>>),
          KindNode("Gather", <<"c1", "c2">>, NoAttr)>> : d \in {<<>>, <<2>>}}
  \cup {<<(<<ArithConst(1, s)>>),
          KindNode("Slice", <<"c1">>,
                   [NoAttr EXCEPT !.starts = <<1>>, !.ends = <<2>>,
                                  !.has_axes = TRUE, !.ints = <<0>>])>>}

\* the Value records of the names in present
ValuesFor(nodes, present) ==
  SelectSeq(ValuesOf(nodes), LAMBDA v : v.name \in present)

InitKinds ==
  \E s \in KindShapes :
    \E gr \in KindGraphs(s) :
      \E extra \in {<<>>, <<OpNode(2, "Relu", <<"v1">>)>>, <<OpNode(2, "Relu", <<"x">>)>>,
                     <<OpNode(2, "Neg", <<"v1">>)>>} :
        \E present \in SUBSET {"c1", "c2", "v1"} :
          InitWith(gr[1] \o <<gr[2]>> \o extra,
                   ValuesFor(gr[1] \o <<gr[2]>> \o extra, present \cup {"v2"}))

(* ------------------------- constant_folding(g) ------------------------ *)
\* an entry point that counts the clones of Duplication as a fold
DuplicateTo_counting_clones(r) ==
  /\ g_node' = r.node
  /\ g_value_info' = r.value_info
  /\ dup_log' = [done |-> TRUE, err |-> r.err, clones |-> r.clones,
                 removed |-> r.removed]
  /\ pc' = IF r.err # "" THEN "error" ELSE "while"
  /\ keep_folding' = TRUE
  /\ folded' = (r.clones # <<>>)
  /\ UNCHANGED <<idx, calls, entry, returned, gate, last_eval, reports>>

\* line 23: duplicate_constant_node(g), with the result r; lines 24-25
DuplicateTo(r) ==
  /\ g_node' = r.node
  /\ g_value_info' = r.value_info
  /\ dup_log' = [done |-> TRUE, err |-> r.err, clones |-> r.clones,
                 removed |-> r.removed]
  /\ pc' = IF r.err # "" THEN "error" ELSE "while"
  /\ keep_folding' = TRUE
  /\ folded' = FALSE
  /\ UNCHANGED <<idx, calls, entry, returned, gate, last_eval, reports>>

Duplicate ==
  /\ pc = "dup"
  /\ DuplicateTo(duplicate_constant_node(g_node, g_value_info))

\* lines 26-28: the while test holds, a pass over g.node begins
EnterPass ==
  /\ pc = "while"
  /\ keep_folding
  /\ keep_folding' = FALSE
  /\ idx' = 1
  /\ pc' = "for"
  /\ UNCHANGED <<g_node, g_value_info, folded, calls, entry, returned, gate,
                 last_eval, dup_log, reports>>

\* lines 26, 42: the while test fails, "return folded"
Return ==
  /\ pc = "while"
  /\ ~keep_folding
  /\ returned' = Append(returned, [folded |-> folded, node |-> g_node,
                                   value_info |-> g_value_info])
  /\ pc' = "done"
  /\ UNCHANGED <<g_node, g_value_info, idx, keep_folding, folded, calls, entry,
                 gate, last_eval, dup_log, reports>>

\* line 28: the for loop has run past the end of the live list
EndPass ==
  /\ pc = "for"
  /\ idx > Len(g_node)
  /\ pc' = "while"
  /\ UNCHANGED <<g_node, g_value_info, idx, keep_folding, folded, calls, entry,
                 returned, gate, last_eval, dup_log, reports>>

\* lines 30-31: the node's kind has no evaluator
SkipNode ==
  /\ pc = "for"
  /\ idx <= Len(g_node)
  /\ g_node[idx].op_type \notin Registered
  /\ idx' = idx + 1
  /\ UNCHANGED <<g_node, g_value_info, pc, keep_folding, folded, calls, entry,
                 returned, gate, last_eval, dup_log, reports>>

\* lines 33-34: the Eligibility Gate on the node, with the result ok
GateTo(n, ok) ==
  /\ gate' = [node |-> n.output, result |-> ok,
               before |-> [node |-> g_node, value_info |-> g_value_info]]
  /\ pc' = IF ok THEN "fold" ELSE "for"
  /\ idx' = IF ok THEN idx ELSE idx + 1
  /\ UNCHANGED <<g_node, g_value_info, keep_folding, folded, calls, entry,
                 returned, last_eval, dup_log, reports>>

Gate ==
  /\ pc = "for"
  /\ idx <= Len(g_node)
  /\ g_node[idx].op_type \in Registered
  /\ GateTo(g_node[idx], are_all_inputs_Constant_with_one_child(g_node, g_node[idx]))

\* lines 36-41: the evaluator of the node's kind runs on the whole graph,
\* with the result r
FoldTo(n, r) ==
  /\ g_node' = r.node
  /\ g_value_info' = r.value_info
  /\ last_eval' = [op_type |-> n.op_type, at |-> n.output, folded |-> r.folded,
                   err |-> r.err, folds |-> r.folds, removals |-> r.removals,
                   before |-> g_node]
  /\ pc' = IF r.err # "" THEN "error" ELSE "for"
  /\ folded' = IF r.err = "" /\ r.folded THEN TRUE ELSE folded
  /\ keep_folding' = IF r.err = "" /\ r.folded THEN TRUE ELSE keep_folding
  /\ idx' = idx + 1
  /\ reports' = Append(reports, r.err = "" /\ r.folded)
  /\ gate' = NoGate
  /\ UNCHANGED <<calls, entry, returned, dup_log>>

Fold ==
  /\ pc = "fold"
  /\ FoldTo(g_node[idx],
            constant_folding_nodes(g_node[idx].op_type, g_node, g_value_info))

\* the caller calls constant_folding(g) again on the graph it got back
CallAgain ==
  /\ pc = "done"
  /\ calls < MaxCalls
  /\ calls' = calls + 1
  /\ entry' = [node |-> g_node, value_info |-> g_value_info]
  /\ pc' = "dup"
  /\ idx' = 0
  /\ gate' = NoGate
  /\ last_eval' = NoEval
  /\ dup_log' = NoDup
  /\ reports' = <<>>
  /\ UNCHANGED <<g_node, g_value_info, keep_folding, folded, returned>>

Next ==
  \/ Duplicate
  \/ EnterPass
  \/ Return
  \/ EndPass
  \/ SkipNode
  \/ Gate
  \/ Fold
  \/ CallAgain

Spec == Init /\ [][Next]_vars

\* the same program on the arithmetic graphs
SpecArith == InitArith /\ [][Next]_vars

\* the same program on the graphs of one node of each registered kind
SpecKinds == InitKinds /\ [][Next]_vars

\* Control moves on: the call is running and takes a step to its next
\* position.  Every step of constant_folding changes pc or idx, and one is
\* possible whenever pc is dup, while, for or fold; so a step of this
\* action that changes <<pc, idx>> is taken exactly when the call takes a
\* step, and is possible exactly when the call can take one.
ControlMoves ==
  /\ pc \in {"dup", "while", "for", "fold"}
  /\ pc' \in {"while", "for", "fold", "done", "error"}
  /\ idx' \in {1, idx, idx + 1}

\* the program on the graphs of one node of each registered kind, with
\* the interpreter running a call until it returns or raises
SpecLive == InitKinds /\ [][Next]_vars /\ WF_<<pc, idx>>(ControlMoves)

(* ============================ properties ============================== *)
\* positions of the nodes that produce, and that read, the value
Producers(nodes, name) == {p \in 1..Len(nodes) : nodes[p].output = name}
ConsumerSet(nodes, name) == {p \in 1..Len(nodes) : name \in Range(nodes[p].input)}
HasNode(nodes, name) == Producers(nodes, name) # {}
NodeNamed(nodes, name) == nodes[CHOOSE p \in Producers(nodes, name) : TRUE]
HasValue(values, name) == \E k \in 1..Len(values) : values[k].name = name
ValueNamed(values, name) ==
  values[CHOOSE k \in 1..Len(values) : values[k].name = name]

\* positions in the entry graph of the Constants with at least two consumers
SharedAtEntry ==
  {p \in 1..Len(entry.node) :
     /\ entry.node[p].op_type = "Constant"
     /\ Cardinality(ConsumerSet(entry.node, entry.node[p].output)) >= 2}

RegisteredAt(nodes, ps) == {p \in ps : nodes[p].op_type \in Registered}

\* duplicate_constant_node of the current call has just returned
AfterDup ==
  /\ pc = "while"
  /\ keep_folding
  /\ dup_log.done
  /\ dup_log.err = ""
  /\ last_eval = NoEval

\* in the current graph the node named m reads, in input position k, a
\* Constant equal to orig in dtype, shape and payload that nobody else reads
ReadsPrivateClone(m, k, orig) ==
  /\ HasNode(g_node, m)
  /\ NodeNamed(g_node, m).input[k] # orig.output
  /\ HasNode(g_node, NodeNamed(g_node, m).input[k])
  /\ NodeNamed(g_node, NodeNamed(g_node, m).input[k]).op_type = "Constant"
  /\ NodeNamed(g_node, NodeNamed(g_node, m).input[k]).t = orig.t
  /\ Cardinality(ConsumerSet(g_node, NodeNamed(g_node, m).input[k])) = 1

\* C1: whenever a second call of constant_folding has returned, it returned
\* false and the graph it left is the graph the first call left.
C1_SecondCallChangesNothing ==
  Len(returned) >= 2 =>
    /\ ~returned[2].folded
    /\ returned[2].node = returned[1].node
    /\ returned[2].value_info = returned[1].value_info

\* C2: every Constant an evaluator invocation removed as the folded
\* predecessor of a node N had, at the moment of its removal, no consumer
\* other than N.
C2_RemovedConstantHasNoOtherConsumer ==
  \A k \in 1..Len(last_eval.removals) : last_eval.removals[k].others = {}

C4_OriginalKeptForNonFoldable ==
  (dup_log.done /\ dup_log.err = "") =>
    \A p \in SharedAtEntry :
      \A a, b \in ConsumerSet(entry.node, entry.node[p].output) :
        ( /\ Cardinality(ConsumerSet(entry.node, entry.node[p].output)) = 2
          /\ entry.node[a].op_type \in Registered
          /\ entry.node[b].op_type \notin Registered ) =>
          /\ HasNode(g_node, entry.node[p].output)
          /\ HasNode(g_node, entry.node[b].output)
          /\ entry.node[p].output \in
               Range(NodeNamed(g_node, entry.node[b].output).input)
          /\ AfterDup =>
               \A k \in 1..Len(entry.node[a].input) :
                 entry.node[a].input[k] = entry.node[p].output =>
                   ReadsPrivateClone(entry.node[a].output, k, entry.node[p])

\* C5: when Duplication returns, for every Constant that had two or more
\* consumers at entry, every consumer of a registered kind reads, in every
\* input position that held the original, a clone of the same dtype, shape
\* and payload (tensor and Value record) with exactly one consumer.
C5_EveryFoldableConsumerReadsPrivateClone ==
  AfterDup =>
    \A p \in SharedAtEntry :
      \A a \in RegisteredAt(entry.node, ConsumerSet(entry.node, entry.node[p].output)) :
        \A k \in 1..Len(entry.node[a].input) :
          entry.node[a].input[k] = entry.node[p].output =>
            /\ ReadsPrivateClone(entry.node[a].output, k, entry.node[p])
            /\ HasValue(g_value_info,
                        NodeNamed(g_node, entry.node[a].output).input[k])
            /\ ValueNamed(g_value_info,
                          NodeNamed(g_node, entry.node[a].output).input[k]).elem_type
                 = entry.node[p].t.data_type
            /\ ValueNamed(g_value_info,
                          NodeNamed(g_node, entry.node[a].output).input[k]).shape
                 = ValueNamed(entry.value_info, entry.node[p].output).shape

\* C6: when Duplication returns, a Constant that had two or more consumers
\* at entry is gone with its Value record if and only if all its consumers
\* were of registered kinds; if it is gone no node reads its name, and if
\* some consumer was of another kind the Constant and its Value are there.
C6_OriginalRemovedIffAllFoldable ==
  AfterDup =>
    \A p \in SharedAtEntry :
      /\ ( /\ ~HasNode(g_node, entry.node[p].output)
           /\ ~HasValue(g_value_info, entry.node[p].output) )
           <=> ( RegisteredAt(entry.node,
                              ConsumerSet(entry.node, entry.node[p].output))
                   = ConsumerSet(entry.node, entry.node[p].output) )
      /\ ~HasNode(g_node, entry.node[p].output) =>
            ConsumerSet(g_node, entry.node[p].output) = {}
      /\ ( RegisteredAt(entry.node, ConsumerSet(entry.node, entry.node[p].output))
             # ConsumerSet(entry.node, entry.node[p].output) ) =>
            /\ HasNode(g_node, entry.node[p].output)
            /\ HasValue(g_value_info, entry.node[p].output)

\* C7: when constant_folding returns, it returns true if and only if some
\* evaluator invocation of the call returned true; clones made by
\* Duplication do not count.
C7_ReturnsWhetherSomethingFolded ==
  pc = "done" =>
    ( returned[Len(returned)].folded
        <=> \E k \in 1..Len(reports) : reports[k] )

\* a call that only duplicated: the graph changed, nothing folded, and the
\* call returned false
C7_Witness ==
  /\ pc = "done"
  /\ dup_log.clones # <<>>
  /\ g_node # entry.node
  /\ \A k \in 1..Len(reports) : ~reports[k]
  /\ ~returned[Len(returned)].folded

\* every input of n has a producer, every producer is a Constant, and the
\* value has exactly one consumer
Eligible(nodes, n) ==
  \A k \in 1..Len(n.input) :
    /\ Producers(nodes, n.input[k]) # {}
    /\ \A p \in Producers(nodes, n.input[k]) : nodes[p].op_type = "Constant"
    /\ Cardinality(ConsumerSet(nodes, n.input[k])) = 1

\* C8: the Eligibility Gate answers true exactly for a node all of whose
\* inputs are produced by Constants with exactly one consumer, and it
\* leaves the graph as it was.
C8_GateIffAllInputsSingleConsumerConstants ==
  gate.node # "" =>
    /\ g_node = gate.before.node
    /\ g_value_info = gate.before.value_info
    /\ gate.result <=> Eligible(g_node, NodeNamed(g_node, gate.node))

\* the gate answered false for a node with an input that no node produces
C8_Witness ==
  /\ gate.node # ""
  /\ ~gate.result
  /\ \E a \in Range(NodeNamed(g_node, gate.node).input) : ~HasNode(g_node, a)

\* the declared shapes of the two operands the folded node named m had
\* before the last evaluator invocation
OperandDims(m, j) ==
  NodeNamed(last_eval.before, NodeNamed(last_eval.before, m).input[j]).t.dims

\* C9: a Mul or Add node folded from two operands of the rank-0 shape
\* becomes a Constant of the rank-0 shape.
C9_ScalarOperandsGiveScalarResult ==
  \A k \in 1..Len(last_eval.folds) :
    ( /\ last_eval.folds[k].op_type \in {"Mul", "Add"}
      /\ OperandDims(last_eval.folds[k].n, 1) = <<>>
      /\ OperandDims(last_eval.folds[k].n, 2) = <<>> ) =>
      last_eval.folds[k].t.dims = <<>>

\* numpy's rule: right-aligned, the dims are equal or one of them is 1
Compatible(s1, s2) ==
  \A d \in 1..(IF Len(s1) < Len(s2) THEN Len(s1) ELSE Len(s2)) :
    \/ s1[Len(s1) - d + 1] = s2[Len(s2) - d + 1]
    \/ s1[Len(s1) - d + 1] = 1
    \/ s2[Len(s2) - d + 1] = 1

\* C10: an evaluator invoked for an eligible Add, Sub, Mul or Div node
\* whose two constant operands have shapes that do not broadcast aborts the
\* call, and folds nothing.
C10_IncompatibleShapesAbort ==
  ( /\ last_eval.op_type \in ArithKinds
    /\ ~Compatible(OperandDims(last_eval.at, 1), OperandDims(last_eval.at, 2)) ) =>
    /\ last_eval.err # ""
    /\ pc = "error"
    /\ last_eval.folds = <<>>

\* the multi-indices (from 0) of an array of shape r
Indices(r) == {I \in [1..Len(r) -> 0..MaxDim] : \A d \in 1..Len(r) : I[d] < r[d]}

\* row-major flat position (from 0) of the multi-index I in shape s
RECURSIVE FlatFrom(_, _, _)
FlatFrom(I, s, d) ==
  IF d > Len(s) THEN 0 ELSE I[d] * ProdFrom(s, d + 1) + FlatFrom(I, s, d + 1)

\* the multi-index in an operand of shape s that the multi-index I of a
\* result of rank n reads: right-aligned, a dimension of size 1 is stretched
Stretched(I, s, n) ==
  [d \in 1..Len(s) |-> IF s[d] = 1 THEN 0 ELSE I[d + n - Len(s)]]

\* the broadcast of two compatible shapes
Broadcast(s1, s2) ==
  [d \in 1..Max(Len(s1), Len(s2)) |->
     Max(Aligned(s1, Max(Len(s1), Len(s2)), d),
         Aligned(s2, Max(Len(s1), Len(s2)), d))]

OperandVals(m, j) ==
  NodeNamed(last_eval.before, NodeNamed(last_eval.before, m).input[j]).t.vals

ArithOp(op_type, a, b) ==
  CASE op_type = "Add" -> a + b
    [] op_type = "Sub" -> a - b
    [] op_type = "Mul" -> a * b
    [] op_type = "Div" -> a \div b

\* the tensor t is the elementwise op_type of the operands (s1, v1) and
\* (s2, v2) under broadcasting
IsBroadcastResult(t, op_type, s1, v1, s2, v2) ==
  /\ t.dims = Broadcast(s1, s2)
  /\ Len(t.vals) = ProdFrom(t.dims, 1)
  /\ \A I \in Indices(t.dims) :
       t.vals[FlatFrom(I, t.dims, 1) + 1] =
         ArithOp(op_type,
                 v1[FlatFrom(Stretched(I, s1, Len(t.dims)), s1, 1) + 1],
                 v2[FlatFrom(Stretched(I, s2, Len(t.dims)), s2, 1) + 1])

\* C11: a Constant folded from an Add, Sub, Mul or Div node whose operand
\* shapes broadcast has the broadcast shape, and each of its elements is
\* the operation applied to the elements of the stretched operands.
C11_FoldedArithmeticIsBroadcastResult ==
  \A k \in 1..Len(last_eval.folds) :
    ( /\ last_eval.folds[k].op_type \in ArithKinds
      /\ Compatible(OperandDims(last_eval.folds[k].n, 1),
                    OperandDims(last_eval.folds[k].n, 2)) ) =>
      IsBroadcastResult(last_eval.folds[k].t, last_eval.folds[k].op_type,
                        OperandDims(last_eval.folds[k].n, 1),
                        OperandVals(last_eval.folds[k].n, 1),
                        OperandDims(last_eval.folds[k].n, 2),
                        OperandVals(last_eval.folds[k].n, 2))

\* the evaluator is about to run for a Cast node over a Constant whose
\* target type is none of 6, 7 and FLOAT
UnsupportedCastAtFold ==
  /\ pc = "fold"
  /\ g_node[idx].op_type = "Cast"
  /\ g_node[idx].attr.i \notin {INT32, INT64, FLOAT}
  /\ HasNode(g_node, g_node[idx].input[1])
  /\ NodeNamed(g_node, g_node[idx].input[1]).op_type = "Constant"

\* C12: When the evaluator runs for a gated Cast node with a Constant
\* predecessor and a target type that is none of 6, 7 and FLOAT, the call
\* ends with the RuntimeError: nothing is returned by that step, and no step
\* (no further evaluator, no return) is ever taken from the error state.
C12_UnsupportedCastAbortsTheCall ==
  [][/\ pc # "error"
     /\ UnsupportedCastAtFold =>
          /\ pc' = "error"
          /\ last_eval'.err = "RuntimeError"
          /\ returned' = returned]_vars

\* a call that ended with the RuntimeError of a Cast node
C12_Witness ==
  /\ pc = "error"
  /\ last_eval.op_type = "Cast"
  /\ last_eval.err = "RuntimeError"
  /\ Len(returned) < calls

\* the Constant inputs of node n that have no Value record in values
InputsWithoutValue(nodes, values, n) ==
  {a \in Range(n.input) :
     /\ HasNode(nodes, a)
     /\ NodeNamed(nodes, a).op_type = "Constant"
     /\ ~HasValue(values, a)}

\* values, with the missing Value records of the Constant inputs k.. of
\* node n added
RECURSIVE WithInputValues(_, _, _, _)
WithInputValues(nodes, values, n, k) ==
  IF k > Len(n.input) THEN values
  ELSE WithInputValues(nodes,
         IF n.input[k] \in InputsWithoutValue(nodes, values, n)
           THEN Append(values,
                  MakeValueInfo(n.input[k], NodeNamed(nodes, n.input[k]).t.data_type,
                                NodeNamed(nodes, n.input[k]).t.dims))
           ELSE values,
         n, k + 1)

\* C13: An evaluator invocation for a gated node of which a Constant input
\* has no Value record ends without error whenever the same invocation on
\* the same graph with the missing records present ends without error: the
\* absence of an input's Value record alone never makes it fail.
C13_MissingInputValueIsTolerated ==
  [][(/\ pc = "fold"
      /\ InputsWithoutValue(g_node, g_value_info, g_node[idx]) # {}
      /\ constant_folding_nodes(g_node[idx].op_type, g_node,
           WithInputValues(g_node, g_value_info, g_node[idx], 1)).err = "")
       => last_eval'.err = ""]_vars

\* the node that the last evaluator invocation folded into V
FoldedNode(V) == NodeNamed(last_eval.before, V)

\* the producers, before the invocation, of the inputs of the folded node
PredecessorsOf(V) ==
  {NodeNamed(last_eval.before, a) :
     a \in {b \in Range(FoldedNode(V).input) : HasNode(last_eval.before, b)}}

\* C14: After an evaluator invocation that ended without error, for every
\* node N it folded, with output V: (1) exactly one node of the graph
\* produces V and it is a Constant, (2) the graph has a Value record named
\* V, and (3) N, the Constant nodes N read and the Value records of their
\* outputs are not in the graph.
C14_FoldReplacesNodeAndPredecessors ==
  last_eval.err = "" =>
    \A k \in 1..Len(last_eval.folds) :
      /\ Cardinality({i \in 1..Len(g_node) : g_node[i].output = last_eval.folds[k].n}) = 1
      /\ NodeNamed(g_node, last_eval.folds[k].n).op_type = "Constant"
      /\ HasValue(g_value_info, last_eval.folds[k].n)
      /\ FoldedNode(last_eval.folds[k].n) \notin Range(g_node)
      /\ \A p \in PredecessorsOf(last_eval.folds[k].n) :
           /\ p \notin Range(g_node)
           /\ ~HasValue(g_value_info, p.output)

\* the elements of the Constant that the folded node V read, and of the
\* Constant it was folded into
InputVals(V) == NodeNamed(last_eval.before, FoldedNode(V).input[1]).t.vals

\* C15: In every Constant folded from a Reciprocal node, the element at
\* each position is the reciprocal of the input element x when |x| is above
\* 1e-8, and the reciprocal of 1e-8 with the sign of x (a zero counted as
\* positive) when |x| is below 1e-8: a tiny negative element gives a large
\* negative reciprocal.
C15_ReciprocalClampKeepsSign ==
  \A k \in 1..Len(last_eval.folds) :
    last_eval.folds[k].op_type = "Reciprocal" =>
      /\ Len(last_eval.folds[k].t.vals) = Len(InputVals(last_eval.folds[k].n))
      /\ \A j \in 1..Len(InputVals(last_eval.folds[k].n)) :
           /\ Abs(InputVals(last_eval.folds[k].n)[j]) > Eps =>
                last_eval.folds[k].t.vals[j]
                  = Scale \div InputVals(last_eval.folds[k].n)[j]
           /\ Abs(InputVals(last_eval.folds[k].n)[j]) < Eps =>
                last_eval.folds[k].t.vals[j]
                  = IF InputVals(last_eval.folds[k].n)[j] < 0
                      THEN Scale \div (0 - Eps) ELSE Scale \div Eps

\* C16: Every call of constant_folding eventually returns or aborts with
\* an error; every evaluator invocation that reports success leaves the
\* graph with fewer nodes than before (the folded node and at least one
\* predecessor Constant are gone, one Constant is new), and every
\* invocation that reports no fold leaves the nodes and the Value records
\* as they were.
C16_CallEndsAndFoldsShrinkTheGraph ==
  /\ (pc = "dup") ~> (pc \in {"done", "error"})
  /\ [][pc = "fold" =>
          /\ (last_eval'.err = "" /\ last_eval'.folded) =>
               /\ Len(g_node') < Len(g_node)
               /\ g_node[idx] \notin Range(g_node')
               /\ \E a \in Range(g_node[idx].input) :
                    /\ HasNode(g_node, a)
                    /\ NodeNamed(g_node, a).op_type = "Constant"
                    /\ NodeNamed(g_node, a) \notin Range(g_node')
               /\ HasNode(g_node', g_node[idx].output)
               /\ NodeNamed(g_node', g_node[idx].output).op_type = "Constant"
          /\ (last_eval'.err = "" /\ ~last_eval'.folded) =>
               /\ g_node' = g_node
               /\ g_value_info' = g_value_info]_vars

\* a call that returned after two evaluator invocations that folded
C16_Witness ==
  /\ pc = "done"
  /\ Cardinality({i \in 1..Len(reports) : reports[i]}) >= 2

\* the node_to_del list of the evaluator that is about to run, as it is
\* when its loop over g.node ends (or raises)
ScheduledAtFold ==
  EvalLoop(g_node[idx].op_type, EvalState(g_node, g_value_info), 1).node_to_del

\* C17: In every evaluator invocation, no removal of a node or of a Value
\* record fails because its target is not in the list, and no node is put
\* on node_to_del twice; also for a gated node that reads one Constant in
\* two input positions.
C17_RemovalsTargetPresentElements ==
  [][pc = "fold" =>
       /\ last_eval'.err # NotInList
       /\ \A i, j \in 1..Len(ScheduledAtFold) :
            i # j => ScheduledAtFold[i].n # ScheduledAtFold[j].n]_vars

\* C18: During a whole call of constant_folding, every node of the graph
\* the call was entered with whose kind is neither Constant nor registered
\* is still in the graph, with the same kind, input names, output name and
\* attributes; and every node an evaluator invocation folded had each of
\* its inputs produced by a Constant node when the invocation began.
C18_UnregisteredNodesUntouched ==
  /\ \A i \in 1..Len(entry.node) :
       entry.node[i].op_type \notin Registered \cup {"Constant"}
         => entry.node[i] \in Range(g_node)
  /\ \A k \in 1..Len(last_eval.folds) :
       \A a \in Range(FoldedNode(last_eval.folds[k].n).input) :
         /\ HasNode(last_eval.before, a)
         /\ NodeNamed(last_eval.before, a).op_type = "Constant"

\* a call with a node of no registered kind, in which Duplication made a
\* clone and an evaluator folded a node
C18_Witness ==
  /\ \E i \in 1..Len(entry.node) : entry.node[i].op_type \notin Registered \cup {"Constant"}
  /\ dup_log.clones # <<>>
  /\ last_eval.folds # <<>>
  /\ last_eval.err = ""

====
